---- MODULE Spec2Model ----
(***************************************************************************)
(* A model of computeSales.py: main() loads two JSON documents, builds a   *)
(* price catalogue, aggregates the sale records and writes the report.     *)
(*                                                                         *)
(* Python floats are IEEE-754 binary floating point, round-to-nearest,    *)
(* ties-to-even.  The model keeps that arithmetic but with a significand   *)
(* of MantBits bits instead of 53 and a largest exponent of MaxExp; a      *)
(* finite float is held as an integer number of quanta of 2^-FracBits.     *)
(* Signed zeros are not distinguished.                                     *)
(***************************************************************************)
EXTENDS Integers, Sequences, FiniteSets, TLC

\* ---------------------------------------------------------------- bounds
MantBits == 4
FracBits == 2
MaxExp == 8
MaxProducts == 2
MaxSales == 3

\* ------------------------------------------------------ float arithmetic
RECURSIVE Pow(_, _)
Pow(b, n) == IF n = 0 THEN 1 ELSE b * Pow(b, n - 1)

Abs(n) == IF n < 0 THEN -n ELSE n
Sgn(n) == IF n < 0 THEN -1 ELSE 1

Unit == Pow(2, FracBits)
MaxFinite == (Pow(2, MantBits) - 1) * Pow(2, MaxExp)

Fin(q) == [k |-> "fin", q |-> q]
Inf(s) == [k |-> "inf", q |-> s]
NaN == [k |-> "nan", q |-> 0]
Zero == Fin(0)

\* The distance between neighbouring floats at magnitude a (in quanta).
RECURSIVE SpacingFrom(_, _)
SpacingFrom(a, s) ==
    IF a < Pow(2, MantBits) * s \/ s = Pow(2, MaxExp)
    THEN s ELSE SpacingFrom(a, 2 * s)

Spacing(a) == SpacingFrom(a, 1)

\* The float nearest to num/den quanta (den > 0), ties to even, overflow to
\* infinity.
Round(num, den) ==
    LET a == Abs(num)
        s == Spacing(a \div den)
        m == a \div (den * s)
        r == a - m * den * s
        up == IF 2 * r > den * s \/ (2 * r = den * s /\ m % 2 = 1) THEN 1 ELSE 0
        res == (m + up) * s
    IN  IF res > MaxFinite THEN Inf(Sgn(num)) ELSE Fin(Sgn(num) * res)

FloatAdd(a, b) ==
    CASE a.k = "nan" \/ b.k = "nan" -> NaN
      [] a.k = "inf" /\ b.k = "inf" -> IF a.q = b.q THEN a ELSE NaN
      [] a.k = "inf" -> a
      [] b.k = "inf" -> b
      [] OTHER -> Round(a.q + b.q, 1)

FloatMul(a, b) ==
    CASE a.k = "nan" \/ b.k = "nan" -> NaN
      [] a.k = "inf" /\ b.k = "inf" -> Inf(a.q * b.q)
      [] a.k = "inf" -> IF b.q = 0 THEN NaN ELSE Inf(a.q * Sgn(b.q))
      [] b.k = "inf" -> IF a.q = 0 THEN NaN ELSE Inf(b.q * Sgn(a.q))
      [] OTHER -> Round(a.q * b.q, Unit)

\* ----------------------------------------------------------- JSON values
\* A decoded JSON value: t is its Python type, n its number (an int, or the
\* quanta of a finite float, or the sign of an infinity), s its characters.
JInt(n) == [t |-> "int", n |-> n, s |-> <<>>]
JFloat(q) == [t |-> "float", n |-> q, s |-> <<>>]
JInfinity == [t |-> "inf", n |-> 1, s |-> <<>>]
JStr(s) == [t |-> "str", n |-> 0, s |-> s]
JNull == [t |-> "null", n |-> 0, s |-> <<>>]
JList == [t |-> "list", n |-> 0, s |-> <<>>]
\* Marks a key that the decoded object does not have.
Missing == [t |-> "missing", n |-> 0, s |-> <<>>]

\* An int too large for a float, as 10**400 is for a double.
HugeInt == 2 * MaxFinite

\* ------------------------------------------------------ text conversions
Digits == <<"0", "1", "2", "3", "4", "5", "6", "7", "8", "9">>
IsDigit(c) == \E i \in 1..10 : Digits[i] = c
DigitVal(c) == (CHOOSE i \in 1..10 : Digits[i] = c) - 1
AllDigits(s) == \A i \in 1..Len(s) : IsDigit(s[i])

RECURSIVE DigitsVal(_)
DigitsVal(s) ==
    IF s = <<>> THEN 0
    ELSE 10 * DigitsVal(SubSeq(s, 1, Len(s) - 1)) + DigitVal(s[Len(s)])

HasSign(s) == Len(s) > 0 /\ s[1] \in {"-", "+"}
Body(s) == IF HasSign(s) THEN Tail(s) ELSE s
\* A sign test that takes "+" for a minus.
SignOfAnySign(s) == IF Len(s) > 0 /\ s[1] \in {"-", "+"} THEN -1 ELSE 1
SignOf(s) == IF Len(s) > 0 /\ s[1] = "-" THEN -1 ELSE 1

Dots(s) == {i \in 1..Len(s) : s[i] = "."}
IntPart(s) == IF Dots(s) = {} THEN s ELSE SubSeq(s, 1, (CHOOSE i \in Dots(s) : TRUE) - 1)
FracPart(s) == IF Dots(s) = {} THEN <<>> ELSE SubSeq(s, (CHOOSE i \in Dots(s) : TRUE) + 1, Len(s))

IsDecimal(s) ==
    /\ Cardinality(Dots(s)) <= 1
    /\ AllDigits(IntPart(s)) /\ AllDigits(FracPart(s))
    /\ Len(IntPart(s)) + Len(FracPart(s)) > 0

\* int(text): an optional sign and decimal digits.
IsIntLiteral(s) == Len(Body(s)) > 0 /\ AllDigits(Body(s))
ParseInt(s) == SignOf(s) * DigitsVal(Body(s))

\* float(text): an optional sign, then "inf", "nan" or a decimal number,
\* converted to the nearest float.
IsFloatLiteral(s) ==
    Body(s) \in {<<"i", "n", "f">>, <<"n", "a", "n">>} \/ IsDecimal(Body(s))

ParseFloat(s) ==
    LET b == Body(s) IN
    CASE b = <<"i", "n", "f">> -> Inf(SignOf(s))
      [] b = <<"n", "a", "n">> -> NaN
      [] OTHER -> Round(SignOf(s) * DigitsVal(IntPart(b) \o FracPart(b)) * Unit,
                        Pow(10, Len(FracPart(b))))

\* -------------------------------------------------------- Python builtins
\* float(v): the exception it raises ("none" when it returns) and its value.
PyFloatExc(v) ==
    CASE v.t = "int" -> IF Round(v.n * Unit, 1).k = "inf" THEN "OverflowError" ELSE "none"
      [] v.t \in {"float", "inf"} -> "none"
      [] v.t = "str" -> IF IsFloatLiteral(v.s) THEN "none" ELSE "ValueError"
      [] OTHER -> "TypeError"

PyFloat(v) ==
    CASE v.t = "int" -> Round(v.n * Unit, 1)
      [] v.t = "float" -> Fin(v.n)
      [] v.t = "inf" -> Inf(v.n)
      [] OTHER -> ParseFloat(v.s)

\* int(v): a float is truncated towards zero.
PyIntExc(v) ==
    CASE v.t \in {"int", "float"} -> "none"
      [] v.t = "inf" -> "OverflowError"
      [] v.t = "str" -> IF IsIntLiteral(v.s) THEN "none" ELSE "ValueError"
      [] OTHER -> "TypeError"

PyInt(v) ==
    CASE v.t = "int" -> v.n
      [] v.t = "float" -> Sgn(v.n) * (Abs(v.n) \div Unit)
      [] OTHER -> ParseInt(v.s)

\* float * int: the int is converted to a float first.
MulExc(f, n) == IF Round(n * Unit, 1).k = "inf" THEN "OverflowError" ELSE "none"
Mul(f, n) == FloatMul(f, Round(n * Unit, 1))

\* Only JSON arrays (and objects) are unhashable.
Hashable(v) == v.t # "list"

\* record[key]: TypeError unless the record is a JSON object, KeyError when
\* the key is absent.
GetItemExc(rec, key) ==
    IF ~rec.isdict THEN "TypeError"
    ELSE IF rec[key] = Missing THEN "KeyError" ELSE "none"

\* ------------------------------------------------------------------ dicts
\* A dict is the sequence of its items in insertion order.
Keys(d) == {d[i].key : i \in 1..Len(d)}
HasKey(d, key) == key \in Keys(d)
Lookup(d, key) == d[CHOOSE i \in 1..Len(d) : d[i].key = key].val
\* An assignment that keeps the value of a key the dict already has.
SetItemKeepFirst(d, key, val) ==
    IF HasKey(d, key) THEN d ELSE Append(d, [key |-> key, val |-> val])
SetItem(d, key, val) ==
    IF HasKey(d, key)
    THEN [i \in 1..Len(d) |-> IF d[i].key = key THEN [key |-> key, val |-> val] ELSE d[i]]
    ELSE Append(d, [key |-> key, val |-> val])

\* ----------------------------------------------------- the loop bodies
\* The exceptions the two loops catch (lines 36 and 65).
Caught == {"KeyError", "ValueError", "TypeError"}

\* Lines 33-35: the first exception the body raises on a product record.
ProductExc(product) ==
    IF GetItemExc(product, "title") # "none" THEN GetItemExc(product, "title")
    ELSE IF GetItemExc(product, "price") # "none" THEN GetItemExc(product, "price")
    ELSE IF PyFloatExc(product.price) # "none" THEN PyFloatExc(product.price)
    ELSE IF ~Hashable(product.title) THEN "TypeError"
    ELSE "none"

\* One pass of the loop of build_price_catalogue over a state [cat, exc];
\* exc is the exception that has escaped, if any.
ProductStep(st, product) ==
    LET e == ProductExc(product) IN
    IF st.exc # "none" THEN st
    ELSE IF e = "none"
    THEN [cat |-> SetItem(st.cat, product.title, PyFloat(product.price)), exc |-> "none"]
    ELSE IF e \in Caught THEN st
    ELSE [st EXCEPT !.exc = e]

\* Lines 49-62: what the body does with a sale record: "accumulate",
\* "notfound" (the continue of line 55) or the first exception it raises.
SaleOutcome(record, cat) ==
    IF GetItemExc(record, "SALE_ID") # "none" THEN GetItemExc(record, "SALE_ID")
    ELSE IF GetItemExc(record, "Product") # "none" THEN GetItemExc(record, "Product")
    ELSE IF GetItemExc(record, "Quantity") # "none" THEN GetItemExc(record, "Quantity")
    ELSE IF PyIntExc(record.Quantity) # "none" THEN PyIntExc(record.Quantity)
    ELSE IF ~Hashable(record.Product) THEN "TypeError"
    ELSE IF ~HasKey(cat, record.Product) THEN "notfound"
    ELSE IF MulExc(Lookup(cat, record.Product), PyInt(record.Quantity)) # "none"
         THEN MulExc(Lookup(cat, record.Product), PyInt(record.Quantity))
    ELSE IF ~Hashable(record.SALE_ID) THEN "TypeError"
    ELSE "accumulate"

\* Line 57 without the quantity.
CostOfOne(record, cat) == Lookup(cat, record.Product)

\* Line 57.
Cost(record, cat) == Mul(Lookup(cat, record.Product), PyInt(record.Quantity))

\* Lines 59-62 with "=" for "+=".
AccumulateOverwrite(totals, sale_id, cost) == SetItem(totals, sale_id, cost)

\* Lines 59-62.
Accumulate(totals, sale_id, cost) ==
    LET d == IF HasKey(totals, sale_id) THEN totals ELSE SetItem(totals, sale_id, Zero)
    IN  SetItem(d, sale_id, FloatAdd(Lookup(d, sale_id), cost))

\* The loop body with line 63 inside the branch of line 59: the grand total
\* grows only with the first record of a sale id.
SaleStepGrandOnNewId(st, record, cat) ==
    LET o == SaleOutcome(record, cat) IN
    IF st.exc # "none" THEN st
    ELSE IF o = "accumulate"
    THEN [totals |-> Accumulate(st.totals, record.SALE_ID, Cost(record, cat)),
          grand |-> IF HasKey(st.totals, record.SALE_ID) THEN st.grand
                    ELSE FloatAdd(st.grand, Cost(record, cat)),
          exc |-> "none"]
    ELSE IF o = "notfound" \/ o \in Caught THEN st
    ELSE [st EXCEPT !.exc = o]

\* The loop body with lines 59-60 ahead of the test of line 53: an unknown
\* product leaves a subtotal of 0.0 behind.
SaleStepEarlyInit(st, record, cat) ==
    LET o == SaleOutcome(record, cat) IN
    IF st.exc # "none" THEN st
    ELSE IF o = "accumulate"
    THEN [totals |-> Accumulate(st.totals, record.SALE_ID, Cost(record, cat)),
          grand |-> FloatAdd(st.grand, Cost(record, cat)),
          exc |-> "none"]
    ELSE IF o = "notfound" /\ Hashable(record.SALE_ID) /\ ~HasKey(st.totals, record.SALE_ID)
    THEN [st EXCEPT !.totals = SetItem(st.totals, record.SALE_ID, Zero)]
    ELSE IF o = "notfound" \/ o \in Caught THEN st
    ELSE [st EXCEPT !.exc = o]

\* One pass of the loop of compute_sales_total over a state
\* [totals, grand, exc]; exc is the exception that has escaped, if any.
SaleStep(st, record, cat) ==
    LET o == SaleOutcome(record, cat) IN
    IF st.exc # "none" THEN st
    ELSE IF o = "accumulate"
    THEN [totals |-> Accumulate(st.totals, record.SALE_ID, Cost(record, cat)),
          grand |-> FloatAdd(st.grand, Cost(record, cat)),
          exc |-> "none"]
    ELSE IF o = "notfound" \/ o \in Caught THEN st
    ELSE [st EXCEPT !.exc = o]

\* compute_sales_total as a function of its arguments.
RECURSIVE ComputeSalesTotal(_, _)
ComputeSalesTotal(recs, cat) ==
    IF recs = <<>> THEN [totals |-> <<>>, grand |-> Zero, exc |-> "none"]
    ELSE SaleStep(ComputeSalesTotal(SubSeq(recs, 1, Len(recs) - 1), cat),
                  recs[Len(recs)], cat)

\* ------------------------------------------------------------ the report
\* The modelled characters in code point order.
Chars == <<"+", "-", ".", "0", "1", "2", "3", "4", "5", "6", "7", "8", "9",
           "A", "B", "a", "b", "c", "f", "i", "n", "x">>
Ord(c) == CHOOSE i \in 1..Len(Chars) : Chars[i] = c

RECURSIVE StrLess(_, _)
StrLess(a, b) ==
    IF b = <<>> THEN FALSE
    ELSE IF a = <<>> THEN TRUE
    ELSE IF a[1] # b[1] THEN Ord(a[1]) < Ord(b[1])
    ELSE StrLess(Tail(a), Tail(b))

\* a < b between dict keys; ints and texts do not compare with each other.
Comparable(a, b) == a.t = b.t /\ a.t \in {"int", "str"}
Less(a, b) == IF a.t = "int" THEN a.n < b.n ELSE StrLess(a.s, b.s)

\* sorted(keys) raises TypeError as soon as two keys do not compare.
SortedExc(S) ==
    IF \E a, b \in S : a # b /\ ~Comparable(a, b) THEN "TypeError" ELSE "none"

RECURSIVE Sorted(_)
Sorted(S) ==
    IF S = {} THEN <<>>
    ELSE LET m == CHOOSE x \in S : \A y \in S \ {x} : Less(x, y)
         IN  <<m>> \o Sorted(S \ {m})

\* format(x, ".2f"): the number of hundredths nearest to the float.
Fmt2(f) ==
    IF f.k # "fin" THEN f
    ELSE LET a == Abs(f.q) * 100
             m == a \div Unit
             r == a - m * Unit
             up == IF 2 * r > Unit \/ (2 * r = Unit /\ m % 2 = 1) THEN 1 ELSE 0
         IN  Fin(Sgn(f.q) * (m + up))

\* A line of output: its fixed text, the input position or sale id it is
\* about, and the formatted amount.
Line(msg, idx, id, amount) == [msg |-> msg, idx |-> idx, id |-> id, amount |-> amount]
Text(msg) == Line(msg, 0, JNull, Zero)
ErrorAt(msg, idx) == Line(msg, idx, JNull, Zero)
SaleLine(totals, id) == Line("Sale ID", 0, id, Fmt2(Lookup(totals, id)))
Footer(grand) == Line("TOTAL SALES", 0, JNull, Fmt2(grand))

SaleLines(totals) ==
    LET ks == Sorted(Keys(totals)) IN [i \in 1..Len(ks) |-> SaleLine(totals, ks[i])]

\* ----------------------------------------------------------------- inputs
Product(title, price) == [isdict |-> TRUE, title |-> title, price |-> price]
Sale(id, product, quantity) ==
    [isdict |-> TRUE, SALE_ID |-> id, Product |-> product, Quantity |-> quantity]
\* Records that are not JSON objects.
BadProduct == [isdict |-> FALSE, title |-> Missing, price |-> Missing]
BadSale == [isdict |-> FALSE, SALE_ID |-> Missing, Product |-> Missing, Quantity |-> Missing]

Widget == JStr(<<"A", "a">>)
Gadget == JStr(<<"B", "b">>)

ProductRecords ==
    { Product(Widget, JStr(<<"2", ".", "5", "0">>)),
      Product(Widget, JInt(1)),
      Product(Widget, JStr(<<"+", "1">>)),
      Product(Gadget, JFloat(1)),
      Product(Gadget, JStr(<<"n", "a", "n">>)),
      Product(Gadget, JStr(<<"-", "0", ".", "2", "5">>)),
      Product(Gadget, JStr(<<"a", "b", "c">>)),
      Product(Widget, Missing),
      Product(Missing, JInt(1)),
      Product(Gadget, JNull),
      Product(Gadget, JInt(HugeInt)),
      Product(JList, JInt(1)),
      BadProduct }

SaleRecords ==
    { Sale(JInt(1), Widget, JInt(4)),
      Sale(JInt(1), Widget, JInt(2)),
      Sale(JInt(2), Gadget, JInt(1)),
      Sale(JInt(1), Gadget, JStr(<<"1">>)),
      Sale(JStr(<<"A">>), Widget, JFloat(2 * Unit + 3)),
      Sale(JInt(2), Gadget, JStr(<<"a", "b", "c">>)),
      Sale(JInt(2), Widget, Missing),
      Sale(JInt(2), JList, JInt(1)),
      Sale(JList, Widget, JInt(1)),
      Sale(JInt(1), Widget, JInfinity),
      Sale(JInt(2), Widget, JInt(HugeInt)),
      BadSale }

SeqsUpTo(S, n) == UNION {[1..k -> S] : k \in 0..n}

\* The scenario of the specification's section 8.
ScenarioProducts == <<Product(Widget, JStr(<<"2", ".", "5", "0">>))>>
ScenarioSales ==
    <<Sale(JInt(1), Widget, JInt(4)), Sale(JInt(1), Widget, JInt(2)),
      Sale(JInt(2), Gadget, JInt(1))>>

ProductSamples ==
    { <<>>,
      ScenarioProducts,
      <<Product(Widget, JStr(<<"2", ".", "5", "0">>)), Product(Gadget, JFloat(1))>>,
      <<Product(Widget, JStr(<<"2", ".", "5", "0">>)),
        Product(Gadget, JStr(<<"-", "0", ".", "2", "5">>))>> }

SaleSamples ==
    { <<>>,
      ScenarioSales,
      <<Sale(JInt(2), Gadget, JInt(1)), Sale(JStr(<<"A">>), Widget, JFloat(2 * Unit + 3))>>,
      <<Sale(JInt(2), Widget, Missing), Sale(JInt(1), Widget, JInfinity)>> }

\* What load_json_file can meet: a missing file, text that is not JSON, any
\* other failure of open() or of decoding the bytes, or a document.
LoadFailures == {"FileNotFoundError", "JSONDecodeError", "OSError"}

\* ------------------------------------------------------------------ state
VARIABLES
    pc,             \* the line main() is at
    argc,           \* len(sys.argv)
    products,       \* [none, recs]: what load_json_file returned (line 106)
    sales,          \* the same for line 107
    catalogue,      \* the dict of build_price_catalogue
    pi,             \* product records consumed by the loop of line 31
    sale_totals,    \* the dict of compute_sales_total
    grand_total,
    si,             \* sale records consumed by the loop of line 47
    console,        \* what print() has written
    file,           \* what has been written to SalesResults.txt
    calls,          \* the functions called so far
    uncaught,       \* the exception that ended the process, or "none"
    exit_code       \* -1 while running

vars == <<pc, argc, products, sales, catalogue, pi, sale_totals, grand_total,
          si, console, file, calls, uncaught, exit_code>>

None == [none |-> TRUE, recs |-> <<>>]
Doc(recs) == [none |-> FALSE, recs |-> recs]

Init ==
    /\ pc = "main"
    /\ argc \in 1..4
    /\ products = None
    /\ sales = None
    /\ catalogue = <<>>
    /\ pi = 0
    /\ sale_totals = <<>>
    /\ grand_total = Zero
    /\ si = 0
    /\ console = <<>>
    /\ file = <<>>
    /\ calls = <<>>
    /\ uncaught = "none"
    /\ exit_code = -1

\* An exception that nothing catches ends the process with status 1.
Raise(exc) ==
    /\ pc' = "exit"
    /\ uncaught' = exc
    /\ exit_code' = 1

\* Lines 94-104.
CheckArgs ==
    /\ pc = "main"
    /\ IF argc # 3
       THEN /\ console' = Append(console, Text("Usage"))
            /\ pc' = "exit"
            /\ exit_code' = 1
       ELSE /\ pc' = "load_products"
            /\ UNCHANGED <<console, exit_code>>
    /\ UNCHANGED <<argc, products, sales, catalogue, pi, sale_totals,
                   grand_total, si, file, calls, uncaught>>

\* load_json_file (lines 14-24): the two caught failures print and return
\* None, any other failure escapes; a document that is JSON null is
\* returned as None as well.
LoadJsonFile(outcome, name, next, loaded, other) ==
    /\ calls' = Append(calls, name)
    /\ IF outcome.fail = "OSError"
       THEN /\ Raise(outcome.fail)
            /\ UNCHANGED <<loaded, console>>
       ELSE /\ pc' = next
            /\ loaded' = IF outcome.fail = "none" THEN outcome.doc ELSE None
            /\ console' = CASE outcome.fail = "FileNotFoundError" ->
                                   Append(console, Text("ERROR: File not found"))
                            [] outcome.fail = "JSONDecodeError" ->
                                   Append(console, Text("ERROR: Invalid JSON format"))
                            [] OTHER -> console
            /\ UNCHANGED <<uncaught, exit_code>>
    /\ UNCHANGED <<argc, other, catalogue, pi, sale_totals, grand_total, si, file>>

Outcomes(docs) ==
    {[fail |-> f, doc |-> None] : f \in LoadFailures}
      \cup {[fail |-> "none", doc |-> d] : d \in {None} \cup {Doc(r) : r \in docs}}

\* Line 106, for every short list of product records.
LoadProducts ==
    /\ pc = "load_products"
    /\ \E o \in Outcomes(SeqsUpTo(ProductRecords, MaxProducts)) :
          LoadJsonFile(o, "load_json_file(product_file)", "load_sales", products, sales)

\* Line 106, for a few product lists.
LoadProductsSample ==
    /\ pc = "load_products"
    /\ \E o \in Outcomes(ProductSamples) :
          LoadJsonFile(o, "load_json_file(product_file)", "load_sales", products, sales)

\* Line 107, for every short list of sale records.
LoadSales ==
    /\ pc = "load_sales"
    /\ \E o \in Outcomes(SeqsUpTo(SaleRecords, MaxSales)) :
          LoadJsonFile(o, "load_json_file(sales_file)", "check", sales, products)

\* Line 107, for a few sale lists.
LoadSalesSample ==
    /\ pc = "load_sales"
    /\ \E o \in Outcomes(SaleSamples) :
          LoadJsonFile(o, "load_json_file(sales_file)", "check", sales, products)

\* Lines 109-112 with "and" for "or" in the test of line 109.
CheckLoadedAnd ==
    /\ pc = "check"
    /\ IF products.none /\ sales.none
       THEN /\ pc' = "exit"
            /\ exit_code' = 1
            /\ UNCHANGED calls
       ELSE /\ pc' = "build"
            /\ calls' = Append(calls, "build_price_catalogue")
            /\ UNCHANGED exit_code
    /\ catalogue' = <<>>
    /\ pi' = 0
    /\ UNCHANGED <<argc, products, sales, sale_totals, grand_total, si,
                   console, file, uncaught>>

\* Lines 109-112, up to the first pass of the loop of line 31.
CheckLoaded ==
    /\ pc = "check"
    /\ IF products.none \/ sales.none
       THEN /\ pc' = "exit"
            /\ exit_code' = 1
            /\ UNCHANGED calls
       ELSE /\ pc' = "build"
            /\ calls' = Append(calls, "build_price_catalogue")
            /\ UNCHANGED exit_code
    /\ catalogue' = <<>>
    /\ pi' = 0
    /\ UNCHANGED <<argc, products, sales, sale_totals, grand_total, si,
                   console, file, uncaught>>

\* Lines 31-37: one pass of the loop.
BuildStep ==
    /\ pc = "build"
    /\ pi < Len(products.recs)
    /\ LET product == products.recs[pi + 1]
           st == ProductStep([cat |-> catalogue, exc |-> "none"], product)
       IN  /\ pi' = pi + 1
           /\ catalogue' = st.cat
           /\ console' = IF ProductExc(product) \in Caught
                         THEN Append(console,
                                ErrorAt("ERROR: Invalid product entry skipped", pi + 1))
                         ELSE console
           /\ IF st.exc # "none"
              THEN Raise(st.exc)
              ELSE UNCHANGED <<pc, uncaught, exit_code>>
    /\ UNCHANGED <<argc, products, sales, sale_totals, grand_total, si, file, calls>>

\* Line 39, and line 113 up to the first pass of the loop of line 47.
BuildReturn ==
    /\ pc = "build"
    /\ pi = Len(products.recs)
    /\ pc' = "compute"
    /\ calls' = Append(calls, "compute_sales_total")
    /\ sale_totals' = <<>>
    /\ grand_total' = Zero
    /\ si' = 0
    /\ UNCHANGED <<argc, products, sales, catalogue, pi, console, file,
                   uncaught, exit_code>>

\* Lines 47-66: one pass of the loop.
ComputeStep ==
    /\ pc = "compute"
    /\ si < Len(sales.recs)
    /\ LET record == sales.recs[si + 1]
           o == SaleOutcome(record, catalogue)
           st == SaleStep([totals |-> sale_totals, grand |-> grand_total, exc |-> "none"],
                          record, catalogue)
       IN  /\ si' = si + 1
           /\ sale_totals' = st.totals
           /\ grand_total' = st.grand
           /\ console' = CASE o = "notfound" ->
                                 Append(console, ErrorAt("ERROR: Product not found", si + 1))
                           [] o \in Caught ->
                                 Append(console,
                                   ErrorAt("ERROR: Invalid sales record skipped", si + 1))
                           [] OTHER -> console
           /\ IF st.exc # "none"
              THEN Raise(st.exc)
              ELSE UNCHANGED <<pc, uncaught, exit_code>>
    /\ UNCHANGED <<argc, products, sales, catalogue, pi, file, calls>>

\* Line 68, and lines 115-116 up to the call of write_results.
ComputeReturn ==
    /\ pc = "compute"
    /\ si = Len(sales.recs)
    /\ pc' = "write"
    /\ UNCHANGED <<argc, products, sales, catalogue, pi, sale_totals,
                   grand_total, si, console, file, calls, uncaught, exit_code>>

\* write_results (lines 71-90), and the end of main.
WriteResults ==
    /\ pc = "write"
    /\ calls' = Append(calls, "write_results")
    /\ pc' = "exit"
    /\ IF SortedExc(Keys(sale_totals)) # "none"
       THEN /\ uncaught' = SortedExc(Keys(sale_totals))
            /\ exit_code' = 1
            /\ console' = Append(console, Text("SALES SUMMARY"))
            /\ file' = <<Text("SALES SUMMARY")>>
       ELSE /\ exit_code' = 0
            /\ console' = (Append(console, Text("SALES SUMMARY"))
                            \o SaleLines(sale_totals)) \o <<Footer(grand_total)>>
            /\ file' = (<<Text("SALES SUMMARY")>> \o SaleLines(sale_totals))
                            \o <<Footer(grand_total)>>
            /\ UNCHANGED uncaught
    /\ UNCHANGED <<argc, products, sales, catalogue, pi, sale_totals,
                   grand_total, si>>

\* The run with every short product list and a few sale lists.
Next ==
    \/ CheckArgs
    \/ LoadProducts
    \/ LoadSalesSample
    \/ CheckLoaded
    \/ BuildStep
    \/ BuildReturn
    \/ ComputeStep
    \/ ComputeReturn
    \/ WriteResults

Spec == Init /\ [][Next]_vars

\* The run with a few product lists and every short sale list.
NextSales ==
    \/ CheckArgs
    \/ LoadProductsSample
    \/ LoadSales
    \/ CheckLoaded
    \/ BuildStep
    \/ BuildReturn
    \/ ComputeStep
    \/ ComputeReturn
    \/ WriteResults

SpecSales == Init /\ [][NextSales]_vars

\* ------------------------------------------------------------ properties
Called(fn) == \E i \in 1..Len(calls) : calls[i] = fn

\* compute_sales_total is inside its loop, or has returned.
InCompute == pc = "compute"
ComputeReturned == pc = "write" \/ Called("write_results")
\* compute_sales_total has just returned (line 113).
AtComputeReturn == pc = "write"
\* build_price_catalogue is inside its loop, or has returned.
InBuild == pc = "build"
BuildReturned == Called("compute_sales_total")

\* The records each loop has consumed so far.
ProductsSeen == SubSeq(products.recs, 1, pi)
SalesSeen == SubSeq(sales.recs, 1, si)

\* A sale record whose three fields extract (the quantity as an integer)
\* and whose product is a key of the catalogue.
Extracts(r) ==
    /\ r.isdict
    /\ r.SALE_ID # Missing /\ r.Product # Missing /\ r.Quantity # Missing
    /\ PyIntExc(r.Quantity) = "none"
Matches(r, cat) == Extracts(r) /\ r.Product \in Keys(cat)

\* The float sum of a sequence of floats, left to right from 0.0.
RECURSIVE SumInOrder(_)
SumInOrder(fs) ==
    IF fs = <<>> THEN Zero
    ELSE FloatAdd(SumInOrder(SubSeq(fs, 1, Len(fs) - 1)), fs[Len(fs)])

Values(d) == [i \in 1..Len(d) |-> d[i].val]

\* price * quantity of the matching records among recs whose id is k.
CostsOf(recs, cat, k) ==
    LET Mine(r) == Matches(r, cat) /\ r.SALE_ID = k
        mine == SelectSeq(recs, Mine)
    IN  [i \in 1..Len(mine) |->
            FloatMul(Lookup(cat, mine[i].Product), Round(PyInt(mine[i].Quantity) * Unit, 1))]

\* The costs the loop has added so far, in input order.
CostsAdded(recs, cat) ==
    LET Added(r) == SaleOutcome(r, cat) = "accumulate"
        added == SelectSeq(recs, Added)
    IN  [i \in 1..Len(added) |-> Cost(added[i], cat)]

RECURSIVE SumAbs(_)
SumAbs(fs) == IF fs = <<>> THEN 0 ELSE Abs(fs[1].q) + SumAbs(Tail(fs))

\* No addition of these floats, in any order or grouping, rounds: they are
\* finite multiples of one power of two and their magnitudes add up to less
\* than 2^MantBits of it.
ExactSums(fs) ==
    \E e \in 0..MaxExp :
        /\ \A i \in 1..Len(fs) : fs[i].k = "fin" /\ fs[i].q % Pow(2, e) = 0
        /\ SumAbs(fs) < Pow(2, MantBits + e)

\* C1 as stated: while compute_sales_total runs and when it has returned,
\* grand_total equals the sum of the values of sale_totals.
C1_GrandTotalEqualsSum ==
    (InCompute \/ ComputeReturned) =>
        grand_total = SumInOrder(Values(sale_totals))

\* C1 amended: grand_total equals the sum of the values of sale_totals
\* whenever no addition of the accumulated costs rounds; otherwise the two
\* may differ by the rounding of the float additions.
C1_GrandTotalEqualsSumWhenExact ==
    ((InCompute \/ ComputeReturned) /\ ExactSums(CostsAdded(SalesSeen, catalogue))) =>
        grand_total = SumInOrder(Values(sale_totals))

\* C1 witness: three costs accumulated under two sale ids, without rounding.
C1_Witness ==
    /\ ComputeReturned
    /\ Len(sale_totals) = 2
    /\ Len(CostsAdded(SalesSeen, catalogue)) = 3
    /\ ExactSums(CostsAdded(SalesSeen, catalogue))
    /\ grand_total # Zero

\* C3: every returned sale id maps to the sum, in input order, of
\* price * quantity over the records with that id whose fields extract and
\* whose product is in the catalogue; the scenario of section 8 gives
\* {1: 15.00} and a grand total of 15.00.
C3_SubtotalIsSumOfMatchingRecords ==
    /\ (InCompute \/ ComputeReturned) =>
          \A k \in Keys(sale_totals) :
              Lookup(sale_totals, k) = SumInOrder(CostsOf(SalesSeen, catalogue, k))
    /\ (ComputeReturned /\ products.recs = ScenarioProducts /\ sales.recs = ScenarioSales) =>
          /\ sale_totals = <<[key |-> JInt(1), val |-> Fin(15 * Unit)]>>
          /\ grand_total = Fin(15 * Unit)

\* C3 witness: the scenario has been aggregated.
C3_Witness ==
    /\ ComputeReturned
    /\ products.recs = ScenarioProducts
    /\ sales.recs = ScenarioSales
    /\ Len(sale_totals) = 1

\* The rearrangements of a sequence.
Rearrangements(recs) ==
    {[i \in 1..Len(recs) |-> recs[f[i]]] :
        f \in {g \in [1..Len(recs) -> 1..Len(recs)] :
                  \A i, j \in 1..Len(recs) : g[i] = g[j] => i = j}}

\* Two dicts with the same keys and the same value for each key.
SameMapping(d, e) ==
    /\ Keys(d) = Keys(e)
    /\ \A k \in Keys(d) : Lookup(d, k) = Lookup(e, k)

\* C10 as stated: every permutation of the sale records gives the same
\* sale_totals mapping and the same grand_total.
C10_OrderIndependent ==
    AtComputeReturn =>
        \A perm \in Rearrangements(sales.recs) :
            LET r == ComputeSalesTotal(perm, catalogue)
            IN  /\ r.exc = "none"
                /\ SameMapping(r.totals, sale_totals)
                /\ r.grand = grand_total

\* C10 amended: every permutation of the sale records returns the same set
\* of sale ids, and the same subtotals and grand total whenever no addition
\* of the accumulated costs rounds; otherwise the values may differ by the
\* rounding of the float additions.
C10_OrderIndependentWhenExact ==
    AtComputeReturn =>
        \A perm \in Rearrangements(sales.recs) :
            LET r == ComputeSalesTotal(perm, catalogue)
            IN  /\ r.exc = "none"
                /\ Keys(r.totals) = Keys(sale_totals)
                /\ ExactSums(CostsAdded(sales.recs, catalogue)) =>
                      /\ SameMapping(r.totals, sale_totals)
                      /\ r.grand = grand_total

\* C10 witness: three records with different costs under two ids were
\* aggregated without rounding, one of them skipped.
C10_Witness ==
    /\ AtComputeReturn
    /\ Len(sales.recs) = 3
    /\ Len(sale_totals) = 2
    /\ Len(CostsAdded(sales.recs, catalogue)) = 2
    /\ ExactSums(CostsAdded(sales.recs, catalogue))
    /\ sale_totals[1].val # sale_totals[2].val

\* The lines compute_sales_total has printed about the i-th sale record.
SaleErrors(i) ==
    SelectSeq(console,
              LAMBDA l : l.idx = i /\ l.msg \in {"ERROR: Product not found",
                                                 "ERROR: Invalid sales record skipped"})

\* The keys of sale_totals are ids of matching records consumed so far.
KeysFromMatchingRecords ==
    (InCompute \/ ComputeReturned) =>
        \A k \in Keys(sale_totals) :
            \E i \in 1..si : Matches(sales.recs[i], catalogue) /\ sales.recs[i].SALE_ID = k

\* C4: a pass of the loop over a record that is skipped (malformed, or its
\* product not in the catalogue, or an error was reported) leaves
\* sale_totals, grand_total and the catalogue as they were; the keys of
\* sale_totals are ids of matching records only, and the catalogue does
\* not change while compute_sales_total runs.
C4_SkippedRecordChangesNothing ==
    [][/\ (pc = "compute" /\ si' = si + 1
            /\ (~Matches(sales.recs[si + 1], catalogue) \/ console' # console))
          => UNCHANGED <<sale_totals, grand_total, catalogue>>
       /\ pc = "compute" => catalogue' = catalogue
       /\ KeysFromMatchingRecords']_vars

\* C4 witness: a record with an unknown product and a malformed record were
\* skipped after a record had been accumulated.
C4_Witness ==
    /\ ComputeReturned
    /\ Len(sale_totals) = 1
    /\ \E i, j \in 1..Len(console) :
          /\ console[i].msg = "ERROR: Product not found"
          /\ console[j].msg = "ERROR: Invalid sales record skipped"
          /\ console[i].idx > 1 /\ console[j].idx > 1

\* C9 as stated: one error line per skipped record and none per accumulated
\* record; a record with a missing field or a quantity that is not an
\* integer is reported as an invalid sales record, a record whose fields
\* extract but whose product is not a catalogue key as product not found.
C9_ErrorsClassified ==
    (Called("compute_sales_total")) =>
        \A i \in 1..si :
            LET r == sales.recs[i]
                o == SaleOutcome(r, catalogue)
                lines == SaleErrors(i)
            IN  /\ o = "accumulate" => lines = <<>>
                /\ ~Extracts(r) =>
                      Len(lines) = 1 /\ lines[1].msg = "ERROR: Invalid sales record skipped"
                /\ (Extracts(r) /\ r.Product \notin Keys(catalogue)) =>
                      Len(lines) = 1 /\ lines[1].msg = "ERROR: Product not found"

\* C2 as stated: no error escapes build_price_catalogue or
\* compute_sales_total, and once the process has ended after entering them
\* both have consumed every record.
C2_NoRecordAborts ==
    Called("build_price_catalogue") =>
        /\ uncaught \in {"none"} \cup (IF Called("write_results") THEN {"TypeError"} ELSE {})
        /\ pc = "exit" =>
              /\ pi = Len(products.recs)
              /\ Called("compute_sales_total")
              /\ si = Len(sales.recs)

\* A product record with a title and a price that float() converts.
ValidAsStated(r) ==
    /\ r.isdict
    /\ r.title # Missing /\ r.price # Missing
    /\ PyFloatExc(r.price) = "none"

\* The same, with a title that can be a dict key.
ValidProduct(r) == ValidAsStated(r) /\ Hashable(r.title)

\* The catalogue holds exactly the titles of the valid records consumed so
\* far, each with the converted price of the last valid record carrying it;
\* with unique titles it has one entry per valid record.
CatalogueIs(Valid(_)) ==
    LET valid == {i \in 1..pi : Valid(products.recs[i])}
        last(k) == CHOOSE i \in valid :
                      /\ products.recs[i].title = k
                      /\ \A j \in valid : products.recs[j].title = k => j <= i
    IN  /\ Keys(catalogue) = {products.recs[i].title : i \in valid}
        /\ \A k \in Keys(catalogue) :
              Lookup(catalogue, k) = PyFloat(products.recs[last(k)].price)
        /\ (\A i, j \in valid : products.recs[i].title = products.recs[j].title => i = j)
              => Len(catalogue) = Cardinality(valid)

\* C5 as stated: a record is valid when its title is present and its price
\* is present and convertible to a number.
C5_CatalogueOfValidRecords ==
    (InBuild \/ BuildReturned) => CatalogueIs(ValidAsStated)

\* C5 amended: the keys of the catalogue are exactly the titles of the valid
\* records, a record being valid when its title is present and hashable and
\* its price is present and convertible to a number; each title maps to the
\* price of the last valid record carrying it, and with unique titles the
\* size of the table is the number of valid records.
C5_CatalogueOfHashableValidRecords ==
    (InBuild \/ BuildReturned) => CatalogueIs(ValidProduct)

\* C5 witness: two valid records with one title and different prices.
C5_Witness ==
    /\ BuildReturned
    /\ pi = 2
    /\ ValidProduct(products.recs[1]) /\ ValidProduct(products.recs[2])
    /\ products.recs[1].title = products.recs[2].title
    /\ PyFloat(products.recs[1].price) # PyFloat(products.recs[2].price)

NonNegative(f) == (f.k = "fin" /\ f.q >= 0) \/ (f.k = "inf" /\ f.q = 1)

\* A JSON price that is a number, or the text of one, and is not negative.
NonNegativePrice(v) ==
    CASE v.t \in {"int", "float"} -> v.n >= 0
      [] v.t = "inf" -> v.n = 1
      [] v.t = "str" -> v.s[1] # "-" /\ Body(v.s) # <<"n", "a", "n">>
      [] OTHER -> FALSE

\* C6 as stated: every price stored in the catalogue is non-negative.
C6_PricesNonNegative ==
    (InBuild \/ BuildReturned) =>
        \A i \in 1..Len(catalogue) : NonNegative(catalogue[i].val)

\* C6 amended: a price stored in the catalogue is non-negative unless a
\* valid record with that title carries a negative or NaN price: prices
\* are stored as converted, whatever their sign.
C6_PricesNonNegativeUnlessInputNegative ==
    (InBuild \/ BuildReturned) =>
        \A i \in 1..Len(catalogue) :
            \/ NonNegative(catalogue[i].val)
            \/ \E j \in 1..pi :
                  /\ ValidProduct(products.recs[j])
                  /\ products.recs[j].title = catalogue[i].key
                  /\ ~NonNegativePrice(products.recs[j].price)

\* C6 witness: the catalogue holds a price converted from signed text and
\* a negative price.
C6_Witness ==
    /\ BuildReturned
    /\ Len(catalogue) = 2
    /\ \E i \in 1..pi : ValidProduct(products.recs[i]) /\ HasSign(products.recs[i].price.s)
                          /\ NonNegativePrice(products.recs[i].price)
    /\ \E i \in 1..2 : ~NonNegative(catalogue[i].val)

\* A source was missing, was not JSON or could not be read.
DecodeFailed ==
    \/ uncaught = "OSError"
    \/ \E i \in 1..Len(console) :
          console[i].msg \in {"ERROR: File not found", "ERROR: Invalid JSON format"}

CoreCalled ==
    Called("build_price_catalogue") \/ Called("compute_sales_total")
        \/ Called("write_results")

\* C7: the core functions and write_results are called only with exactly
\* two arguments and two decoded sources; with another argument count the
\* process ends with status 1 and loads nothing, and when a source fails
\* to decode it ends with status 1 without the core or write_results.
C7_CoreOnlyAfterSuccessfulLoad ==
    /\ CoreCalled => (argc = 3 /\ ~products.none /\ ~sales.none /\ ~DecodeFailed)
    /\ argc # 3 => (calls = <<>> /\ (pc = "exit" => exit_code = 1))
    /\ (DecodeFailed /\ pc = "exit") => (exit_code = 1 /\ ~CoreCalled)

\* C7 witness: the product source failed to decode, the sales source was
\* loaded, and the process has ended.
C7_Witness ==
    /\ pc = "exit"
    /\ DecodeFailed
    /\ Len(calls) = 2
    /\ products.none /\ ~sales.none /\ Len(sales.recs) > 0

\* C8 as stated: once write_results has run, the file holds the header, one
\* line per sale id in ascending order of id, and the footer.
C8_OneSortedLinePerSale ==
    Called("write_results") =>
        /\ Len(file) = Len(sale_totals) + 2
        /\ file[1].msg = "SALES SUMMARY"
        /\ file[Len(file)].msg = "TOTAL SALES"
        /\ {file[i].id : i \in 2..(Len(file) - 1)} = Keys(sale_totals)
        /\ \A i \in 2..(Len(file) - 1) : file[i].msg = "Sale ID"
        /\ \A i, j \in 2..(Len(file) - 1) : i < j => Less(file[i].id, file[j].id)

====
